---- MODULE Spec2Model ----
(***************************************************************************)
(* Model of the cache simulator: Cache / CacheSet / replacement policies   *)
(* (src/cache_simulator) and the process-wide cache_instance of the web    *)
(* adapter (src/app.py).                                                   *)
(***************************************************************************)
EXTENDS Integers, Sequences, FiniteSets, TLC

VARIABLES cache_instance, last, useOrder, loadOrder, trace, seen, live, cfg, rd,
          dec, parsed

vars == <<cache_instance, last, useOrder, loadOrder, trace, seen, live, cfg, rd,
          dec, parsed>>

(* ------------------------------ bounds --------------------------------- *)

\* accesses issued to one Cache instance before the model stops issuing more
MaxAccesses == 6

\* a configure request is issued only while the current instance (if any) has
\* served at most this many accesses
MaxReconfigureAt == 2

\* accesses the web adapter passes to one instance when its handlers run one
\* after the other, and when they run interleaved
MaxAppAccesses == 3
MaxThreadAccesses == 2

\* accesses issued to one of the caches of the test suite
MaxTestAccesses == 8

\* the longest size string handed to parse_size on its own, the strings
\* of the test suite apart
MaxLen == 4

\* the largest total size and block size of the caches built to check the
\* routing of accesses, and the accesses issued to each
MaxSize == 12
MaxShapeAccesses == 1

\* the largest address handed to get_address_parts on its own
MaxAddr == 31

\* inputs offered to the configure and access requests
Topologies ==
  { <<8, 4, -1>>, <<8, 4, 1>>, <<8, 4, 2>>, <<8, 4, -2>>,
    <<12, 4, 1>>, <<16, 4, 1>>, <<16, 4, 2>>, <<12, 4, -1>>,
    <<10, 4, 1>>, <<0, 4, 1>>, <<16, 0, 1>>, <<16, 4, 3>>, <<16, 4, 0>> }
PolicyTypes == {"LRU", "FIFO", "lru", "INVALID"}
Addrs == {0, 4, 8, 12}

\* the access sequences of src/tests/test_cache.py that trace follows
Scripts ==
  { <<0, 4, 8, 0, 12, 4>>, <<0, 4, 0, 8>>, <<0, 4, 8, 12, 0, 4, 8, 12>> }
OffScript == <<-1>>

(* --------------------------- Python helpers ---------------------------- *)

\* Optional[T]: None is the empty sequence, a value v is <<v>>
None == <<>>
Some(v) == <<v>>

\* Python's % for a non-zero divisor: the result takes the divisor's sign
PyMod(a, b) ==
  IF b > 0 THEN a % b ELSE -((-a) % (-b))

\* Python's // for a non-zero divisor: floor division
PyFloorDiv(a, b) ==
  IF b > 0 THEN a \div b ELSE (-a) \div (-b)

RECURSIVE Pow10(_)
Pow10(n) == IF n <= 0 THEN 1 ELSE 10 * Pow10(n - 1)

RECURSIVE Pow2(_)
Pow2(n) == IF n <= 0 THEN 1 ELSE 2 * Pow2(n - 1)

\* int(math.log2(x)) for x >= 1
RECURSIVE Log2Floor(_)
Log2Floor(x) == IF x <= 1 THEN 0 ELSE 1 + Log2Floor(x \div 2)

\* str.upper() on the policy names the model offers
Upper(s) ==
  CASE s = "lru" -> "LRU"
    [] s = "fifo" -> "FIFO"
    [] OTHER -> s

\* the sequence s without the entries equal to k
RECURSIVE SeqWithout(_, _)
SeqWithout(s, k) ==
  IF s = <<>> THEN <<>>
  ELSE IF Head(s) = k THEN SeqWithout(Tail(s), k)
       ELSE <<Head(s)>> \o SeqWithout(Tail(s), k)

SeqElems(s) == {s[i] : i \in 1..Len(s)}

(* ------------------------------ utils.py ------------------------------- *)


\* a Python str is the sequence of its characters

DigitChars == <<"0", "1", "2", "3", "4", "5", "6", "7", "8", "9">>
LowerChars == <<"a", "b", "c", "d", "e", "f", "g", "h", "i", "j", "k", "l", "m",
                "n", "o", "p", "q", "r", "s", "t", "u", "v", "w", "x", "y", "z">>
UpperChars == <<"A", "B", "C", "D", "E", "F", "G", "H", "I", "J", "K", "L", "M",
                "N", "O", "P", "Q", "R", "S", "T", "U", "V", "W", "X", "Y", "Z">>
SpaceChars == {" "}

IsDigitChar(c) == \E i \in 1..10 : DigitChars[i] = c

DigitValue(c) == (CHOOSE i \in 1..10 : DigitChars[i] = c) - 1

\* str.upper()
UpperChar(c) ==
  IF \E i \in 1..26 : LowerChars[i] = c
    THEN UpperChars[CHOOSE i \in 1..26 : LowerChars[i] = c]
    ELSE c

UpperStr(s) == [i \in 1..Len(s) |-> UpperChar(s[i])]

\* str.strip()
RECURSIVE LStrip(_)
LStrip(s) ==
  IF s # <<>> /\ Head(s) \in SpaceChars THEN LStrip(Tail(s)) ELSE s

RECURSIVE RStrip(_)
RStrip(s) ==
  IF s # <<>> /\ s[Len(s)] \in SpaceChars
    THEN RStrip(SubSeq(s, 1, Len(s) - 1))
    ELSE s

Strip(s) == RStrip(LStrip(s))

\* str.isdigit()
IsDigitStr(s) == s # <<>> /\ \A i \in 1..Len(s) : IsDigitChar(s[i])

\* int(s) for a string of digits
RECURSIVE IntOfDigits(_)
IntOfDigits(s) ==
  IF s = <<>> THEN 0
  ELSE 10 * IntOfDigits(SubSeq(s, 1, Len(s) - 1)) + DigitValue(s[Len(s)])

\* the characters parse_size collects into number, and the others
IsNumberChar(c) == IsDigitChar(c) \/ c = "."
IsUnitChar(c) == ~IsNumberChar(c)

\* the multipliers dict; 0 for a unit that is not a key
Multiplier(unit) ==
  CASE unit = <<"B">> -> 1
    [] unit = <<"K", "B">> -> 1024
    [] unit = <<"M", "B">> -> 1024 * 1024
    [] unit = <<"G", "B">> -> 1024 * 1024 * 1024
    [] OTHER -> 0

\* float(number) succeeds on digits with at most one "." and a digit
IsFloatStr(number) ==
  /\ \E i \in 1..Len(number) : IsDigitChar(number[i])
  /\ Cardinality({i \in 1..Len(number) : number[i] = "."}) <= 1

\* int(float(number) * multiplier): the digits scaled by the multiplier,
\* truncated by the number of digits after the "."
ScaledInt(number, multiplier) ==
  LET digits == SelectSeq(number, IsDigitChar)
      dots == {i \in 1..Len(number) : number[i] = "."}
      decimals == IF dots = {} THEN 0
                  ELSE Len(number) - (CHOOSE i \in dots : TRUE)
  IN (IntOfDigits(digits) * multiplier) \div Pow10(decimals)

\* parse_size: None when ValueError is raised
parse_size(size_str) ==
  LET s == Strip(UpperStr(size_str))
      number == SelectSeq(s, IsNumberChar)
      unit == Strip(SelectSeq(s, IsUnitChar))
  IN IF IsDigitStr(s) THEN Some(IntOfDigits(s))
     ELSE IF number = <<>> \/ unit = <<>> THEN None
     ELSE IF Multiplier(unit) = 0 THEN None
     ELSE IF ~IsFloatStr(number) THEN None
     ELSE Some(ScaledInt(number, Multiplier(unit)))


\* get_address_parts with enough index bits to number every set
get_address_parts_ceil_bits(address, block_size, num_sets) ==
  LET offset_bits == Log2Floor(block_size)
      index_bits == IF num_sets > 1
                      THEN IF Pow2(Log2Floor(num_sets)) = num_sets
                             THEN Log2Floor(num_sets)
                             ELSE Log2Floor(num_sets) + 1
                      ELSE 0
      offset == address % Pow2(offset_bits)
      index == IF index_bits > 0
                 THEN (address \div Pow2(offset_bits)) % Pow2(index_bits)
                 ELSE 0
      tag == address \div Pow2(offset_bits + index_bits)
  IN <<tag, index, offset>>

\* get_address_parts whose tag keeps the index bits
get_address_parts_wide_tag(address, block_size, num_sets) ==
  LET offset_bits == Log2Floor(block_size)
      index_bits == IF num_sets > 1 THEN Log2Floor(num_sets) ELSE 0
      offset == address % Pow2(offset_bits)
      index == IF index_bits > 0
                 THEN (address \div Pow2(offset_bits)) % Pow2(index_bits)
                 ELSE 0
      tag == address \div Pow2(offset_bits)
  IN <<tag, index, offset>>

\* get_address_parts with the index taken from the low bits of the address
get_address_parts_no_shift(address, block_size, num_sets) ==
  LET offset_bits == Log2Floor(block_size)
      index_bits == IF num_sets > 1 THEN Log2Floor(num_sets) ELSE 0
      offset == address % Pow2(offset_bits)
      index == IF index_bits > 0 THEN address % Pow2(index_bits) ELSE 0
      tag == address \div Pow2(offset_bits + index_bits)
  IN <<tag, index, offset>>

\* get_address_parts: <<tag, index, offset>>
get_address_parts(address, block_size, num_sets) ==
  LET offset_bits == Log2Floor(block_size)
      index_bits == IF num_sets > 1 THEN Log2Floor(num_sets) ELSE 0
      offset == address % Pow2(offset_bits)
      index == IF index_bits > 0
                 THEN (address \div Pow2(offset_bits)) % Pow2(index_bits)
                 ELSE 0
      tag == address \div Pow2(offset_bits + index_bits)
  IN <<tag, index, offset>>

\* calculate_cache_parameters with the two special associativities swapped
calculate_cache_parameters_swapped(total_size, block_size, associativity) ==
  IF total_size <= 0 \/ block_size <= 0
    THEN [err |-> "ValueError", num_sets |-> 0, ways |-> 0]
  ELSE IF total_size % block_size # 0
    THEN [err |-> "ValueError", num_sets |-> 0, ways |-> 0]
  ELSE LET total_blocks == total_size \div block_size IN
    IF associativity = 1
      THEN [err |-> "", num_sets |-> 1, ways |-> total_blocks]
    ELSE IF associativity = -1
      THEN [err |-> "", num_sets |-> total_blocks, ways |-> 1]
    ELSE IF associativity = 0
      THEN [err |-> "ZeroDivisionError", num_sets |-> 0, ways |-> 0]
    ELSE IF PyMod(total_blocks, associativity) # 0
      THEN [err |-> "ValueError", num_sets |-> 0, ways |-> 0]
    ELSE [err |-> "", num_sets |-> PyFloorDiv(total_blocks, associativity),
          ways |-> associativity]

\* calculate_cache_parameters: [err, num_sets, ways]; err = "" on return
calculate_cache_parameters(total_size, block_size, associativity) ==
  IF total_size <= 0 \/ block_size <= 0
    THEN [err |-> "ValueError", num_sets |-> 0, ways |-> 0]
  ELSE IF total_size % block_size # 0
    THEN [err |-> "ValueError", num_sets |-> 0, ways |-> 0]
  ELSE LET total_blocks == total_size \div block_size IN
    IF associativity = -1
      THEN [err |-> "", num_sets |-> 1, ways |-> total_blocks]
    ELSE IF associativity = 1
      THEN [err |-> "", num_sets |-> total_blocks, ways |-> 1]
    ELSE IF associativity = 0
      THEN [err |-> "ZeroDivisionError", num_sets |-> 0, ways |-> 0]
    ELSE IF PyMod(total_blocks, associativity) # 0
      THEN [err |-> "ValueError", num_sets |-> 0, ways |-> 0]
    ELSE [err |-> "", num_sets |-> PyFloorDiv(total_blocks, associativity),
          ways |-> associativity]

\* CacheStatistics()
CacheStatistics == [accesses |-> 0, hits |-> 0, misses |-> 0, evictions |-> 0]

\* record_access with the miss counter bumped on every access
record_access_always_miss(stats, hit, eviction) ==
  [accesses |-> stats.accesses + 1,
   hits |-> IF hit THEN stats.hits + 1 ELSE stats.hits,
   misses |-> stats.misses + 1,
   evictions |-> IF eviction THEN stats.evictions + 1 ELSE stats.evictions]

\* CacheStatistics.record_access
record_access(stats, hit, eviction) ==
  [accesses |-> stats.accesses + 1,
   hits |-> IF hit THEN stats.hits + 1 ELSE stats.hits,
   misses |-> IF hit THEN stats.misses ELSE stats.misses + 1,
   evictions |-> IF eviction THEN stats.evictions + 1 ELSE stats.evictions]

(* ----------------------------- policies.py ----------------------------- *)

\* a policy is [kind, order]: order lists the OrderedDict's keys, oldest first

\* create_policy: None for an unknown policy_type (ValueError)
create_policy(policy_type) ==
  IF Upper(policy_type) \in {"LRU", "FIFO"}
    THEN Some([kind |-> Upper(policy_type), order |-> <<>>])
    ELSE None

\* access that never reorders: LRU degraded to insertion order
policy_access_never_moves(policy, key) == policy

\* access that moves the key to the end for every kind: FIFO reordered by hits
policy_access_always_moves(policy, key) ==
  IF key \in SeqElems(policy.order)
    THEN [policy EXCEPT !.order = Append(SeqWithout(policy.order, key), key)]
    ELSE policy

\* LRUPolicy.access / FIFOPolicy.access
policy_access(policy, key) ==
  IF policy.kind = "LRU"
    THEN IF key \in SeqElems(policy.order)
           THEN [policy EXCEPT !.order = Append(SeqWithout(policy.order, key), key)]
           ELSE policy
    ELSE policy

\* add that does not track the key
policy_add_forgets(policy, key) == policy

\* LRUPolicy.add / FIFOPolicy.add: assigning an existing key keeps its place
policy_add(policy, key) ==
  IF key \in SeqElems(policy.order)
    THEN policy
    ELSE [policy EXCEPT !.order = Append(policy.order, key)]

\* remove that leaves the key tracked
policy_remove_keeps_key(policy, key) == policy

\* LRUPolicy.remove / FIFOPolicy.remove
policy_remove(policy, key) ==
  IF key \in SeqElems(policy.order)
    THEN [policy EXCEPT !.order = SeqWithout(policy.order, key)]
    ELSE policy

\* get_victim that names the newest tag
policy_get_victim_newest(policy) ==
  IF policy.order = <<>> THEN None
  ELSE Some(policy.order[Len(policy.order)])

\* LRUPolicy.get_victim / FIFOPolicy.get_victim
policy_get_victim(policy) ==
  IF policy.order = <<>> THEN None ELSE Some(Head(policy.order))

(* ------------------------------ cache.py ------------------------------- *)

\* bytearray(block_size)
ZeroBuf(block_size) == [i \in 1..block_size |-> 0]

\* CacheBlock(tag=0): an empty slot
EmptyBlock == [tag |-> 0, valid |-> FALSE, dirty |-> FALSE, data |-> None]

\* CacheSet.__init__; range(num_ways) is empty for num_ways <= 0
NewCacheSet(num_ways, block_size, policy) ==
  [blocks |-> [i \in 1..num_ways |-> EmptyBlock],
   block_size |-> block_size,
   policy |-> policy]

\* the first slot (1-based) among found, as the scans over enumerate(blocks)
\* return it; None if there is none
FirstSlot(found) ==
  IF found = {} THEN None
  ELSE Some(CHOOSE i \in found : \A j \in found : i <= j)

\* find_block that looks at the first slot only
find_block_first_only(cset, tag) ==
  FirstSlot({i \in 1..Len(cset.blocks) :
               i = 1 /\ cset.blocks[i].valid /\ cset.blocks[i].tag = tag})

\* find_block that does not look at the last slot of a set of several
find_block_skips_last(cset, tag) ==
  FirstSlot({i \in 1..Len(cset.blocks) :
               /\ cset.blocks[i].valid
               /\ cset.blocks[i].tag = tag
               /\ (i < Len(cset.blocks) \/ Len(cset.blocks) = 1)})

\* CacheSet.find_block
find_block(cset, tag) ==
  FirstSlot({i \in 1..Len(cset.blocks) :
               cset.blocks[i].valid /\ cset.blocks[i].tag = tag})

\* find_empty_block that looks at the first slot only
find_empty_block_first_only(cset) ==
  FirstSlot({i \in 1..Len(cset.blocks) : i = 1 /\ ~cset.blocks[i].valid})

\* CacheSet.find_empty_block
find_empty_block(cset) ==
  FirstSlot({i \in 1..Len(cset.blocks) : ~cset.blocks[i].valid})

\* a load that leaves the slot's dirty flag as it was
LoadBlock_keeps_dirty(cset, slot, tag) ==
  [cset EXCEPT
     !.blocks[slot] = [tag |-> tag, valid |-> TRUE, dirty |-> @.dirty,
                       data |-> Some(ZeroBuf(cset.block_size))],
     !.policy = policy_add(cset.policy, tag)]

\* a load that leaves the slot's tag as it was
LoadBlock_keeps_tag(cset, slot, tag) ==
  [cset EXCEPT
     !.blocks[slot] = [tag |-> @.tag, valid |-> TRUE, dirty |-> FALSE,
                       data |-> Some(ZeroBuf(cset.block_size))],
     !.policy = policy_add(cset.policy, tag)]

\* the load at the end of CacheSet.access
LoadBlock(cset, slot, tag) ==
  [cset EXCEPT
     !.blocks[slot] = [tag |-> tag, valid |-> TRUE, dirty |-> FALSE,
                       data |-> Some(ZeroBuf(cset.block_size))],
     !.policy = policy_add(cset.policy, tag)]

\* a snapshot that shows the slot as the load leaves it: clean
Snapshot_after_load(block) ==
  [tag |-> block.tag, valid |-> TRUE, dirty |-> FALSE,
   data |-> IF block.data # None /\ Len(block.data[1]) > 0
              THEN block.data ELSE None]

\* the snapshot CacheSet.access takes of the victim
Snapshot(block) ==
  [tag |-> block.tag, valid |-> TRUE, dirty |-> block.dirty,
   data |-> IF block.data # None /\ Len(block.data[1]) > 0
              THEN block.data ELSE None]

\* CacheSet.access: [err, cset, hit, slot, evicted]
set_access(cset, tag) ==
  LET hitSlot == find_block(cset, tag)
      emptySlot == find_empty_block(cset)
      victim == policy_get_victim(cset.policy)
  IN
  IF hitSlot # None
    THEN [err |-> "", hit |-> TRUE, slot |-> hitSlot[1], evicted |-> None,
          cset |-> [cset EXCEPT !.policy = policy_access(cset.policy, tag)]]
  ELSE IF emptySlot # None
    THEN [err |-> "", hit |-> FALSE, slot |-> emptySlot[1], evicted |-> None,
          cset |-> LoadBlock(cset, emptySlot[1], tag)]
  ELSE IF victim = None
    THEN [err |-> "No victim found but set is full", hit |-> FALSE,
          slot |-> 0, evicted |-> None, cset |-> cset]
  ELSE LET victimSlot == find_block(cset, victim[1]) IN
    IF victimSlot = None
      THEN [err |-> "Victim tag not found in set", hit |-> FALSE,
            slot |-> 0, evicted |-> None, cset |-> cset]
      ELSE [err |-> "", hit |-> FALSE, slot |-> victimSlot[1],
            evicted |-> Some(Snapshot(cset.blocks[victimSlot[1]])),
            cset |-> LoadBlock(
                       [cset EXCEPT !.policy = policy_remove(cset.policy, victim[1])],
                       victimSlot[1], tag)]

\* the dirty flag set on hits only
MarkDirty_on_hit_only(cset, slot, hit, is_write) ==
  IF is_write /\ hit
    THEN [cset EXCEPT !.blocks[slot].dirty = TRUE]
    ELSE cset

\* Cache.access, "if block: if is_write: block.dirty = True", on the block
\* CacheSet.access returned (hit tells whether it was found or loaded)
MarkDirty(cset, slot, hit, is_write) ==
  IF is_write
    THEN [cset EXCEPT !.blocks[slot].dirty = TRUE]
    ELSE cset

\* cache_instance = None
NoCache ==
  [configured |-> FALSE, block_size |-> 0, num_sets |-> 0, ways |-> 0,
   sets |-> <<>>, stats |-> CacheStatistics]

\* Cache.__init__: [err, cache]; the sets loop runs range(num_sets) times and
\* calls create_policy once per iteration
NewCache(total_size, block_size, associativity, policy_type) ==
  LET params == calculate_cache_parameters(total_size, block_size, associativity)
      policy == create_policy(policy_type)
  IN
  IF params.err # ""
    THEN [err |-> params.err, cache |-> NoCache]
  ELSE IF params.num_sets >= 1 /\ policy = None
    THEN [err |-> "ValueError", cache |-> NoCache]
  ELSE [err |-> "",
        cache |-> [configured |-> TRUE,
                   block_size |-> block_size,
                   num_sets |-> params.num_sets,
                   ways |-> params.ways,
                   sets |-> [i \in 1..params.num_sets |->
                               NewCacheSet(params.ways, block_size, policy[1])],
                   stats |-> CacheStatistics]]

\* Cache.access on a cache whose sets all share one policy object
cache_access_shared_policy(cache, address, is_write) ==
  LET parts == get_address_parts(address, cache.block_size, cache.num_sets)
      tag == parts[1]
      index == parts[2]
  IN
  IF index + 1 > Len(cache.sets)
    THEN [err |-> "IndexError", cache |-> cache, hit |-> FALSE, evicted |-> None]
  ELSE LET r == set_access(cache.sets[index + 1], tag) IN
    IF r.err # ""
      THEN [err |-> r.err, cache |-> cache, hit |-> FALSE, evicted |-> None]
      ELSE LET written == MarkDirty(r.cset, r.slot, r.hit, is_write)
           IN [err |-> "", hit |-> r.hit, evicted |-> r.evicted,
               cache |-> [cache EXCEPT
                            !.sets = [i \in 1..Len(cache.sets) |->
                                        IF i = index + 1 THEN written
                                        ELSE [cache.sets[i] EXCEPT
                                                !.policy = written.policy]],
                            !.stats = record_access(cache.stats, r.hit,
                                                    r.evicted # None)]]

\* Cache.access: [err, cache, hit, evicted]; sets is 0-based in the source
cache_access(cache, address, is_write) ==
  LET parts == get_address_parts(address, cache.block_size, cache.num_sets)
      tag == parts[1]
      index == parts[2]
  IN
  IF index + 1 > Len(cache.sets)
    THEN [err |-> "IndexError", cache |-> cache, hit |-> FALSE, evicted |-> None]
  ELSE LET r == set_access(cache.sets[index + 1], tag) IN
    IF r.err # ""
      THEN [err |-> r.err, cache |-> cache, hit |-> FALSE, evicted |-> None]
      ELSE LET written == MarkDirty(r.cset, r.slot, r.hit, is_write)
           IN [err |-> "", hit |-> r.hit, evicted |-> r.evicted,
               cache |-> [cache EXCEPT
                            !.sets[index + 1] = written,
                            !.stats = record_access(cache.stats, r.hit,
                                                    r.evicted # None)]]

\* hit_rate, miss_rate: the quotient n / d as a fraction in lowest terms,
\* 0.0 when there has been no access
RECURSIVE Gcd(_, _)
Gcd(a, b) == IF b = 0 THEN a ELSE Gcd(b, a % b)

Rate(n, d) ==
  IF d > 0 THEN <<n \div Gcd(n, d), d \div Gcd(n, d)>> ELSE <<0, 1>>

\* get_stats that counts itself as an access
get_stats_counting(stats) ==
  [result |-> [accesses |-> stats.accesses,
               hits |-> stats.hits,
               misses |-> stats.misses,
               evictions |-> stats.evictions,
               hit_rate |-> Rate(stats.hits, stats.accesses),
               miss_rate |-> Rate(stats.misses, stats.accesses)],
   stats |-> [stats EXCEPT !.accesses = @ + 1]]

\* CacheStatistics.get_stats: [result, stats], stats being the object after
\* the call
get_stats(stats) ==
  [result |-> [accesses |-> stats.accesses,
               hits |-> stats.hits,
               misses |-> stats.misses,
               evictions |-> stats.evictions,
               hit_rate |-> Rate(stats.hits, stats.accesses),
               miss_rate |-> Rate(stats.misses, stats.accesses)],
   stats |-> stats]

\* bytearray.hex()
HexChars == <<"0", "1", "2", "3", "4", "5", "6", "7",
              "8", "9", "a", "b", "c", "d", "e", "f">>

Hex(buf) ==
  [i \in 1..(2 * Len(buf)) |->
     IF i % 2 = 1 THEN HexChars[(buf[(i + 1) \div 2] \div 16) + 1]
                  ELSE HexChars[(buf[i \div 2] % 16) + 1]]

\* the block_info dict of Cache.get_contents
BlockInfo(block) ==
  [tag |-> block.tag, valid |-> block.valid, dirty |-> block.dirty,
   data |-> IF block.data # None /\ Len(block.data[1]) > 0
              THEN Some(Hex(block.data[1])) ELSE None]

\* Cache.get_contents: [result, cache], cache being the object after the call
get_contents(cache) ==
  LET st == get_stats(cache.stats) IN
  [result |-> [sets |-> [i \in 1..Len(cache.sets) |->
                           [index |-> i - 1,
                            blocks |-> [j \in 1..Len(cache.sets[i].blocks) |->
                                          BlockInfo(cache.sets[i].blocks[j])]]],
               stats |-> st.result,
               config |-> [numSets |-> cache.num_sets,
                           waysPerSet |-> cache.ways,
                           blockSize |-> cache.block_size]],
   cache |-> [cache EXCEPT !.stats = st.stats]]

(* ------------------------------- app.py -------------------------------- *)

\* int(s) for a str s: None when ValueError is raised
int_of_str(s) ==
  LET t == Strip(s)
      signed == t # <<>> /\ Head(t) \in {"-", "+"}
      digits == IF signed THEN Tail(t) ELSE t
  IN IF ~IsDigitStr(digits) THEN None
     ELSE IF signed /\ Head(t) = "-" THEN Some(0 - IntOfDigits(digits))
     ELSE Some(IntOfDigits(digits))

\* the JSON body of a configure request: a key that is absent is None
ConfigData(size, blockSize, associativity, policy) ==
  [size |-> size, blockSize |-> blockSize, associativity |-> associativity,
   policy |-> policy]

EmptyConfigData == ConfigData(None, None, None, None)

\* the associativity configure_cache passes on: "fully" is -1, anything
\* else goes through int(); None when KeyError or ValueError is raised
ParseAssociativity(assoc) ==
  IF assoc = None THEN None
  ELSE IF assoc[1] = <<"f", "u", "l", "l", "y">> THEN Some(-1)
  ELSE int_of_str(assoc[1])

\* the parsing and validation of configure_cache before it builds the
\* Cache: [status, total_size, block_size, associativity, policy_type]
config_args(data) ==
  LET bad(status) == [status |-> status, total_size |-> 0, block_size |-> 0,
                      associativity |-> 0, policy_type |-> ""]
      total_size == IF data.size = None THEN None ELSE parse_size(data.size[1])
      block_size == IF data.blockSize = None THEN None
                    ELSE parse_size(data.blockSize[1])
      associativity == ParseAssociativity(data.associativity)
  IN
  IF data = EmptyConfigData THEN bad("No configuration data provided")
  ELSE IF total_size = None \/ block_size = None THEN bad("Invalid size format")
  ELSE IF associativity = None THEN bad("Invalid associativity value")
  ELSE IF data.policy = None \/ data.policy[1] \notin {"LRU", "FIFO"}
    THEN bad("Invalid replacement policy")
  ELSE [status |-> "ok", total_size |-> total_size[1],
        block_size |-> block_size[1], associativity |-> associativity[1],
        policy_type |-> data.policy[1]]

\* the reply to an exception of Cache(...): str(e) of a ValueError with 400,
\* "Internal server error" with 500 for any other
ConstructorStatus(err) ==
  IF err = "ValueError" THEN "ValueError" ELSE "Internal server error"

\* the config dict of the configure reply
ConfigBody(cache, block_size) ==
  [numSets |-> cache.num_sets, waysPerSet |-> cache.ways,
   blockSize |-> block_size]

\* configure_cache that drops the current instance before it validates
configure_cache_clears_first(data, instance) ==
  LET a == config_args(data) IN
  IF a.status # "ok"
    THEN [status |-> a.status, instance |-> NoCache, body |-> None]
  ELSE LET r == NewCache(a.total_size, a.block_size, a.associativity,
                         a.policy_type)
       IN IF r.err # ""
            THEN [status |-> ConstructorStatus(r.err), instance |-> NoCache,
                  body |-> None]
            ELSE [status |-> "ok", instance |-> r.cache,
                  body |-> Some(ConfigBody(r.cache, a.block_size))]

\* configure_cache: [status, instance, body], instance being the global
\* cache_instance after the request
configure_cache(data, instance) ==
  LET a == config_args(data) IN
  IF a.status # "ok"
    THEN [status |-> a.status, instance |-> instance, body |-> None]
  ELSE LET r == NewCache(a.total_size, a.block_size, a.associativity,
                         a.policy_type)
       IN IF r.err # ""
            THEN [status |-> ConstructorStatus(r.err), instance |-> instance,
                  body |-> None]
            ELSE [status |-> "ok", instance |-> r.cache,
                  body |-> Some(ConfigBody(r.cache, a.block_size))]

\* the JSON body of an access request
AccessData(address, isWrite) == [address |-> address, isWrite |-> isWrite]

EmptyAccessData == AccessData(None, None)

\* access_cache: [status, instance, hit, evicted, body]
access_cache(data, instance) ==
  LET failed(status) == [status |-> status, instance |-> instance,
                         hit |-> FALSE, evicted |-> None, body |-> None]
      address == IF data.address = None THEN None ELSE int_of_str(data.address[1])
      is_write == IF data.isWrite = None THEN FALSE ELSE data.isWrite[1]
  IN
  IF ~instance.configured THEN failed("Cache not configured")
  ELSE IF data = EmptyAccessData THEN failed("No access data provided")
  ELSE IF address = None THEN failed("Invalid address format")
  ELSE LET r == cache_access(instance, address[1], is_write) IN
       IF r.err # "" THEN failed(r.err)
       ELSE LET c == get_contents(r.cache) IN
            [status |-> "ok", instance |-> c.cache, hit |-> r.hit,
             evicted |-> IF r.evicted = None THEN None
                         ELSE Some([tag |-> r.evicted[1].tag,
                                    dirty |-> r.evicted[1].dirty]),
             body |-> Some(c.result)]

\* get_state: [status, instance, body]
get_state(instance) ==
  IF ~instance.configured
    THEN [status |-> "Cache not configured", instance |-> instance, body |-> None]
    ELSE LET c == get_contents(instance) IN
         [status |-> "ok", instance |-> c.cache, body |-> Some(c.result)]

\* the stats dict of the get_stats handler
StatsBody(stats) ==
  [totalAccesses |-> stats.accesses, hits |-> stats.hits,
   misses |-> stats.misses, evictions |-> stats.evictions,
   hitRate |-> stats.hit_rate, missRate |-> stats.miss_rate]

\* the get_stats handler: [status, instance, body]
app_get_stats(instance) ==
  IF ~instance.configured
    THEN [status |-> "Cache not configured", instance |-> instance, body |-> None]
    ELSE LET st == get_stats(instance.stats) IN
         [status |-> "ok", instance |-> [instance EXCEPT !.stats = st.stats],
          body |-> Some(StatsBody(st.result))]

\* trace: the addresses accessed on the current instance, in order, as long as
\* they are the beginning of one of Scripts; OffScript once they are not
IsPrefix(p, q) == Len(p) <= Len(q) /\ \A i \in 1..Len(p) : p[i] = q[i]

Follow(tr, address) ==
  IF tr # OffScript /\ \E sc \in Scripts : IsPrefix(Append(tr, address), sc)
    THEN Append(tr, address)
    ELSE OffScript

(* ------------------------------- actions ------------------------------- *)

\* seen: the body of the latest reply of the web adapter; live: "configured"
\* after a successful configure, "reset" after a reset, "never" before both; cfg: the configure request
\* that is building a Cache; rd: the access, state or stats request that has
\* passed its "is None" check
IdleConfigure == [pc |-> "idle", self |-> NoCache, policy_type |-> "", block_size |-> 0]
IdleReader ==
  [pc |-> "idle", op |-> "", data |-> EmptyAccessData, hit |-> FALSE,
   evicted |-> None]

\* dec: two addresses, a block size and a number of sets, and what
\* get_address_parts returns for each address once it has been called
DecodeOf(a, b, block_size, num_sets, parts) ==
  [a |-> a, b |-> b, block_size |-> block_size, num_sets |-> num_sets,
   parts |-> parts]

NoDecode == DecodeOf(0, 0, 1, 1, None)

\* parsed: a size string and, once parse_size has been called on it, what
\* the call did: "" before the call, "ValueError", or "ok" with the value
ParseOf(input, outcome, value) ==
  [input |-> input, outcome |-> outcome, value |-> value]

NoParse == ParseOf(<<>>, "", 0)

\* the reply of the latest request
Reply(op, status, address, is_write, hit, evicted) ==
  [op |-> op, status |-> status, address |-> address, is_write |-> is_write,
   hit |-> hit, evicted |-> evicted]

Init ==
  /\ cache_instance = NoCache
  /\ last = Reply("start", "ok", 0, FALSE, FALSE, None)
  /\ useOrder = <<>>
  /\ loadOrder = <<>>
  /\ trace = <<>>
  /\ seen = None
  /\ live = "never"
  /\ cfg = IdleConfigure
  /\ rd = IdleReader
  /\ dec = NoDecode
  /\ parsed = NoParse

\* a caller builds Cache(total_size, block_size, associativity, policy_type)
\* and keeps it as the current instance (app.py:98, cli.py:101, the tests);
\* the instance is replaced only when the constructor returns
Configure(total_size, block_size, associativity, policy_type) ==
  /\ UNCHANGED <<dec, parsed>>
  /\ cache_instance.stats.accesses <= MaxReconfigureAt
  /\ \E r \in {NewCache(total_size, block_size, associativity, policy_type)} :
       /\ last' = Reply("configure", IF r.err = "" THEN "ok" ELSE r.err,
                        0, FALSE, FALSE, None)
       /\ IF r.err = ""
            THEN /\ cache_instance' = r.cache
                 /\ useOrder' = [i \in 1..Len(r.cache.sets) |-> <<>>]
                 /\ loadOrder' = [i \in 1..Len(r.cache.sets) |-> <<>>]
                 /\ trace' = <<>>
                 /\ live' = "configured"
            ELSE UNCHANGED <<cache_instance, useOrder, loadOrder, trace, live>>
  /\ UNCHANGED <<seen, cfg, rd>>

\* an access request on the current instance, issued while the instance has
\* served fewer than bound accesses; useOrder and loadOrder record, per set,
\* the tags accessed and the tags loaded, least recent first
AccessUpTo(address, is_write, bound) ==
  /\ UNCHANGED <<dec, parsed>>
  /\ UNCHANGED <<seen, live, cfg, rd>>
  /\ IF ~cache_instance.configured
       THEN /\ last' = Reply("access", "Cache not configured", address, is_write,
                             FALSE, None)
            /\ UNCHANGED <<cache_instance, useOrder, loadOrder, trace>>
       ELSE
         /\ cache_instance.stats.accesses < bound
         /\ \E r \in {cache_access(cache_instance, address, is_write)} :
            LET parts == get_address_parts(address, cache_instance.block_size,
                                           cache_instance.num_sets)
                tag == parts[1]
                s == parts[2] + 1
            IN
            /\ last' = Reply("access", IF r.err = "" THEN "ok" ELSE r.err,
                             address, is_write, r.hit, r.evicted)
            /\ cache_instance' = r.cache
            /\ IF r.err = ""
                 THEN /\ useOrder' = [useOrder EXCEPT
                                        ![s] = Append(SeqWithout(@, tag), tag)]
                      /\ loadOrder' = IF r.hit THEN loadOrder
                                      ELSE [loadOrder EXCEPT
                                              ![s] = Append(SeqWithout(@, tag), tag)]
                      /\ trace' = Follow(trace, address)
                 ELSE UNCHANGED <<useOrder, loadOrder, trace>>

Access(address, is_write) == AccessUpTo(address, is_write, MaxAccesses)

\* reset_cache that answers but keeps the instance
Reset_keeps_instance ==
  /\ UNCHANGED <<dec, parsed>>
  /\ last' = Reply("reset", "ok", 0, FALSE, FALSE, None)
  /\ seen' = None
  /\ live' = "reset"
  /\ UNCHANGED <<cache_instance, useOrder, loadOrder, trace, cfg, rd>>

\* reset_cache: cache_instance = None
Reset ==
  /\ UNCHANGED <<dec, parsed>>
  /\ cache_instance' = NoCache
  /\ last' = Reply("reset", "ok", 0, FALSE, FALSE, None)
  /\ useOrder' = <<>>
  /\ loadOrder' = <<>>
  /\ trace' = <<>>
  /\ seen' = None
  /\ live' = "reset"
  /\ UNCHANGED <<cfg, rd>>

Next ==
  \/ \E c \in Topologies, p \in PolicyTypes : Configure(c[1], c[2], c[3], p)
  \/ \E address \in Addrs, is_write \in BOOLEAN : Access(address, is_write)
  \/ Reset

Spec == Init /\ [][Next]_vars

(* ---------------- the web adapter, one request at a time --------------- *)

\* the requests that need a configured cache
ReadOps == {"access", "state", "stats"}

\* request bodies offered to /api/configure and /api/access
ConfigRequests ==
  { EmptyConfigData,
    ConfigData(Some(<<"8">>), Some(<<"4">>), Some(<<"f", "u", "l", "l", "y">>), Some("LRU")),
    ConfigData(Some(<<"1", "6">>), Some(<<"4">>), Some(<<"2">>), Some("FIFO")),
    ConfigData(Some(<<"1", "6", "b">>), Some(<<" ", "4", " ">>), Some(<<"1">>), Some("LRU")),
    ConfigData(Some(<<"8">>), Some(<<"4">>), Some(<<"-", "2">>), Some("LRU")),
    ConfigData(Some(<<"x">>), Some(<<"4">>), Some(<<"1">>), Some("LRU")),
    ConfigData(Some(<<"8">>), None, Some(<<"1">>), Some("LRU")),
    ConfigData(Some(<<"8">>), Some(<<"4">>), Some(<<"x">>), Some("LRU")),
    ConfigData(Some(<<"8">>), Some(<<"4">>), None, Some("LRU")),
    ConfigData(Some(<<"8">>), Some(<<"4">>), Some(<<"2">>), Some("lru")),
    ConfigData(Some(<<"8">>), Some(<<"4">>), Some(<<"2">>), None),
    ConfigData(Some(<<"8">>), Some(<<"4">>), Some(<<"3">>), Some("LRU")),
    ConfigData(Some(<<"8">>), Some(<<"4">>), Some(<<"0">>), Some("LRU")) }

AccessRequests ==
  { EmptyAccessData,
    AccessData(Some(<<"0">>), None),
    AccessData(Some(<<"4">>), Some(TRUE)),
    AccessData(Some(<<"8">>), Some(FALSE)),
    AccessData(Some(<<"x">>), Some(FALSE)),
    AccessData(None, Some(TRUE)) }

\* POST /api/configure
ConfigureRequest(data) ==
  /\ UNCHANGED <<dec, parsed>>
  /\ cache_instance.stats.accesses <= MaxReconfigureAt
  /\ \E r \in {configure_cache(data, cache_instance)} :
       /\ last' = Reply("configure", r.status, 0, FALSE, FALSE, None)
       /\ cache_instance' = r.instance
       /\ seen' = r.body
       /\ live' = IF r.status = "ok" THEN "configured" ELSE live
  /\ UNCHANGED <<useOrder, loadOrder, trace, cfg, rd>>

\* POST /api/access
AccessRequest(data) ==
  /\ UNCHANGED <<dec, parsed>>
  /\ cache_instance.stats.accesses < MaxAppAccesses
  /\ \E r \in {access_cache(data, cache_instance)} :
       /\ last' = Reply("access", r.status, 0, FALSE, r.hit, r.evicted)
       /\ cache_instance' = r.instance
       /\ seen' = r.body
  /\ UNCHANGED <<useOrder, loadOrder, trace, live, cfg, rd>>

\* GET /api/state
StateRequest ==
  /\ UNCHANGED <<dec, parsed>>
  /\ \E r \in {get_state(cache_instance)} :
       /\ last' = Reply("state", r.status, 0, FALSE, FALSE, None)
       /\ cache_instance' = r.instance
       /\ seen' = r.body
  /\ UNCHANGED <<useOrder, loadOrder, trace, live, cfg, rd>>

\* GET /api/stats
StatsRequest ==
  /\ UNCHANGED <<dec, parsed>>
  /\ \E r \in {app_get_stats(cache_instance)} :
       /\ last' = Reply("stats", r.status, 0, FALSE, FALSE, None)
       /\ cache_instance' = r.instance
       /\ seen' = r.body
  /\ UNCHANGED <<useOrder, loadOrder, trace, live, cfg, rd>>

NextApp ==
  \/ \E data \in ConfigRequests : ConfigureRequest(data)
  \/ \E data \in AccessRequests : AccessRequest(data)
  \/ StateRequest
  \/ StatsRequest
  \/ Reset

SpecApp == Init /\ [][NextApp]_vars

(* ------------- the web adapter, requests running interleaved ----------- *)

\* the steps of one configure_cache call: cfg.self is the Cache object under
\* construction, known to the constructor alone

\* configure_cache up to the first lines of Cache.__init__ (cache.py:127-133)
ConfigureBegin(data) ==
  /\ UNCHANGED <<dec, parsed>>
  /\ cfg.pc = "idle"
  /\ \E a \in {config_args(data)} :
       IF a.status # "ok"
         THEN /\ last' = Reply("configure", a.status, 0, FALSE, FALSE, None)
              /\ seen' = None
              /\ UNCHANGED cfg
         ELSE \E params \in {calculate_cache_parameters(a.total_size, a.block_size,
                                                        a.associativity)} :
           IF params.err # ""
             THEN /\ last' = Reply("configure", ConstructorStatus(params.err),
                                   0, FALSE, FALSE, None)
                  /\ seen' = None
                  /\ UNCHANGED cfg
             ELSE /\ cfg' = [pc |-> "sets",
                             self |-> [configured |-> TRUE,
                                       block_size |-> a.block_size,
                                       num_sets |-> params.num_sets,
                                       ways |-> params.ways,
                                       sets |-> <<>>,
                                       stats |-> CacheStatistics],
                             policy_type |-> a.policy_type,
                             block_size |-> a.block_size]
                  /\ UNCHANGED <<last, seen>>
  /\ UNCHANGED <<cache_instance, useOrder, loadOrder, trace, live, rd>>

\* one iteration of "for _ in range(self.num_sets)" (cache.py:134-136)
ConfigureAddSet ==
  /\ UNCHANGED <<dec, parsed>>
  /\ cfg.pc = "sets"
  /\ Len(cfg.self.sets) < cfg.self.num_sets
  /\ \E policy \in {create_policy(cfg.policy_type)} :
       IF policy = None
         THEN /\ last' = Reply("configure", "ValueError", 0, FALSE, FALSE, None)
              /\ seen' = None
              /\ cfg' = IdleConfigure
         ELSE /\ cfg' = [cfg EXCEPT
                           !.self.sets =
                             Append(@, NewCacheSet(cfg.self.ways,
                                                   cfg.self.block_size, policy[1]))]
              /\ UNCHANGED <<last, seen>>
  /\ UNCHANGED <<cache_instance, useOrder, loadOrder, trace, live, rd>>

\* the loop is over: self.stats = CacheStatistics() (cache.py:139)
ConfigureStats ==
  /\ UNCHANGED <<dec, parsed>>
  /\ cfg.pc = "sets"
  /\ Len(cfg.self.sets) >= cfg.self.num_sets
  /\ cfg' = [cfg EXCEPT !.pc = "constructed", !.self.stats = CacheStatistics]
  /\ UNCHANGED <<cache_instance, last, useOrder, loadOrder, trace, seen, live, rd>>

\* the constructor has returned: the assignment to the global (app.py:98)
Constructed(c) == c.pc = "constructed"

ConfigureCommit ==
  /\ UNCHANGED <<dec, parsed>>
  /\ Constructed(cfg)
  /\ cache_instance' = cfg.self
  /\ last' = Reply("configure", "ok", 0, FALSE, FALSE, None)
  /\ seen' = Some(ConfigBody(cfg.self, cfg.block_size))
  /\ live' = "configured"
  /\ cfg' = IdleConfigure
  /\ UNCHANGED <<useOrder, loadOrder, trace, rd>>

\* access_cache, get_state and get_stats up to their first use of the
\* global after the "is None" check
ReadBegin(op, data) ==
  /\ UNCHANGED <<dec, parsed>>
  /\ rd.pc = "idle"
  /\ op = "access" => cache_instance.stats.accesses < MaxThreadAccesses
  /\ \E status \in {IF ~cache_instance.configured THEN "Cache not configured"
                    ELSE IF op # "access" THEN "ok"
                    ELSE IF data = EmptyAccessData THEN "No access data provided"
                    ELSE IF data.address = None THEN "Invalid address format"
                    ELSE IF int_of_str(data.address[1]) = None
                      THEN "Invalid address format"
                    ELSE "ok"} :
       IF status # "ok"
         THEN /\ last' = Reply(op, status, 0, FALSE, FALSE, None)
              /\ seen' = None
              /\ UNCHANGED rd
         ELSE /\ rd' = [IdleReader EXCEPT
                         !.pc = "checked", !.op = op,
                         !.data = IF op = "access" THEN data
                                  ELSE EmptyAccessData]
              /\ UNCHANGED <<last, seen>>
  /\ UNCHANGED <<cache_instance, useOrder, loadOrder, trace, live, cfg>>

\* cache_instance.access(...), cache_instance.get_contents() of get_state
\* and cache_instance.stats.get_stats(): the global is read again
ReadUse ==
  /\ UNCHANGED <<dec, parsed>>
  /\ rd.pc = "checked"
  /\ IF ~cache_instance.configured
       THEN /\ last' = Reply(rd.op, "AttributeError", 0, FALSE, FALSE, None)
            /\ seen' = None
            /\ rd' = IdleReader
            /\ UNCHANGED cache_instance
     ELSE IF rd.op = "state"
       THEN \E c \in {get_contents(cache_instance)} :
            /\ last' = Reply("state", "ok", 0, FALSE, FALSE, None)
            /\ seen' = Some(c.result)
            /\ cache_instance' = c.cache
            /\ rd' = IdleReader
     ELSE IF rd.op = "stats"
       THEN \E st \in {get_stats(cache_instance.stats)} :
            /\ last' = Reply("stats", "ok", 0, FALSE, FALSE, None)
            /\ seen' = Some(StatsBody(st.result))
            /\ cache_instance' = [cache_instance EXCEPT !.stats = st.stats]
            /\ rd' = IdleReader
     ELSE \E r \in {cache_access(cache_instance, int_of_str(rd.data.address[1])[1],
                                 IF rd.data.isWrite = None THEN FALSE
                                 ELSE rd.data.isWrite[1])} :
          IF r.err # ""
            THEN /\ last' = Reply("access", r.err, 0, FALSE, FALSE, None)
                 /\ seen' = None
                 /\ rd' = IdleReader
                 /\ UNCHANGED cache_instance
            ELSE /\ cache_instance' = r.cache
                 /\ rd' = [rd EXCEPT
                             !.pc = "accessed", !.hit = r.hit,
                             !.evicted = IF r.evicted = None THEN None
                                         ELSE Some([tag |-> r.evicted[1].tag,
                                                    dirty |-> r.evicted[1].dirty])]
                 /\ UNCHANGED <<last, seen>>
  /\ UNCHANGED <<useOrder, loadOrder, trace, live, cfg>>

\* cache_instance.get_contents() of access_cache (app.py:165): the global is
\* read once more
ReadContents ==
  /\ UNCHANGED <<dec, parsed>>
  /\ rd.pc = "accessed"
  /\ IF ~cache_instance.configured
       THEN /\ last' = Reply("access", "AttributeError", 0, FALSE, FALSE, None)
            /\ seen' = None
            /\ UNCHANGED cache_instance
       ELSE \E c \in {get_contents(cache_instance)} :
            /\ last' = Reply("access", "ok", 0, FALSE, rd.hit, rd.evicted)
            /\ seen' = Some(c.result)
            /\ cache_instance' = c.cache
  /\ rd' = IdleReader
  /\ UNCHANGED <<useOrder, loadOrder, trace, live, cfg>>

NextThreads ==
  \/ \E data \in ConfigRequests : ConfigureBegin(data)
  \/ ConfigureAddSet
  \/ ConfigureStats
  \/ ConfigureCommit
  \/ \E op \in ReadOps, data \in AccessRequests : ReadBegin(op, data)
  \/ ReadUse
  \/ ReadContents
  \/ Reset

SpecThreads == Init /\ [][NextThreads]_vars

(* ------------------- get_address_parts on its own ---------------------- *)

\* powers of two for block_size and num_sets
BlockSizes == {1, 2, 4, 8}
NumSets == {1, 2, 4}

InitDecode ==
  /\ cache_instance = NoCache
  /\ last = Reply("start", "ok", 0, FALSE, FALSE, None)
  /\ useOrder = <<>>
  /\ loadOrder = <<>>
  /\ trace = <<>>
  /\ seen = None
  /\ live = "never"
  /\ cfg = IdleConfigure
  /\ rd = IdleReader
  /\ \E a \in 0..MaxAddr, b \in 0..MaxAddr, block_size \in BlockSizes,
        num_sets \in NumSets :
       dec = DecodeOf(a, b, block_size, num_sets, None)
  /\ parsed = NoParse

Decompose ==
  /\ dec.parts = None
  /\ dec' = [dec EXCEPT
               !.parts = Some(<<get_address_parts(dec.a, dec.block_size, dec.num_sets),
                                get_address_parts(dec.b, dec.block_size, dec.num_sets)>>)]
  /\ UNCHANGED <<cache_instance, last, useOrder, loadOrder, trace, seen, live,
                 cfg, rd, parsed>>

NextDecode == Decompose

SpecDecode == InitDecode /\ [][NextDecode]_vars

(* ------------------------ parse_size on its own ------------------------ *)

\* the characters the size strings are made of; GB is offered with the
\* number 1 only, which keeps every product below 2^31
SizeChars == {"0", "1", "5", ".", "k", "K", "B", "b", "M", " ", "x"}

\* the strings of test_size_parsing, and 1 GB
TestSizes ==
  { <<"1", "0", "2", "4">>, <<"1", "K", "B">>, <<"1", "k", "b">>,
    <<"1", "M", "B">>, <<"i", "n", "v", "a", "l", "i", "d">>,
    <<"1", "G", "B">>, <<" ", "1", "g", "b", " ">>, <<"1", "G">> }

SizeStrings ==
  TestSizes \cup UNION {[1..n -> SizeChars] : n \in 0..MaxLen}

InitParse ==
  /\ cache_instance = NoCache
  /\ last = Reply("start", "ok", 0, FALSE, FALSE, None)
  /\ useOrder = <<>>
  /\ loadOrder = <<>>
  /\ trace = <<>>
  /\ seen = None
  /\ live = "never"
  /\ cfg = IdleConfigure
  /\ rd = IdleReader
  /\ dec = NoDecode
  /\ \E input \in SizeStrings : parsed = ParseOf(input, "", 0)

ParseSize ==
  /\ parsed.outcome = ""
  /\ \E r \in {parse_size(parsed.input)} :
       parsed' = IF r = None THEN ParseOf(parsed.input, "ValueError", 0)
                 ELSE ParseOf(parsed.input, "ok", r[1])
  /\ UNCHANGED <<cache_instance, last, useOrder, loadOrder, trace, seen, live,
                 cfg, rd, dec>>

NextParse == ParseSize

SpecParse == InitParse /\ [][NextParse]_vars

(* ---------------- the caches of src/tests/test_cache.py ---------------- *)

\* a cache of the test suite is built and then only read
TestCaches == { <<16, 4, -1>>, <<8, 4, -1>>, <<16, 4, 1>>, <<16, 4, 2>> }

InitTests ==
  /\ \E c \in TestCaches, p \in {"LRU", "FIFO"} :
       /\ cache_instance = NewCache(c[1], c[2], c[3], p).cache
       /\ useOrder = [i \in 1..Len(cache_instance.sets) |-> <<>>]
       /\ loadOrder = [i \in 1..Len(cache_instance.sets) |-> <<>>]
  /\ last = Reply("configure", "ok", 0, FALSE, FALSE, None)
  /\ trace = <<>>
  /\ seen = None
  /\ live = "configured"
  /\ cfg = IdleConfigure
  /\ rd = IdleReader
  /\ dec = NoDecode
  /\ parsed = NoParse

ReadAccess(address) == AccessUpTo(address, FALSE, MaxTestAccesses)

NextTests == \E address \in Addrs : ReadAccess(address)

SpecTests == InitTests /\ [][NextTests]_vars

(* ------------------ every topology up to a total size ------------------ *)

\* associativities offered: fully associative, every positive one, and -2
Associativities == {-2, -1} \cup 1..MaxSize

\* a cache of any topology the constructor accepts is built and then read
InitShapes ==
  /\ \E total_size \in 1..MaxSize, block_size \in 1..MaxSize,
        associativity \in Associativities :
       \E r \in {NewCache(total_size, block_size, associativity, "LRU")} :
         /\ r.err = ""
         /\ cache_instance = r.cache
         /\ useOrder = [i \in 1..Len(r.cache.sets) |-> <<>>]
         /\ loadOrder = [i \in 1..Len(r.cache.sets) |-> <<>>]
  /\ last = Reply("configure", "ok", 0, FALSE, FALSE, None)
  /\ trace = <<>>
  /\ seen = None
  /\ live = "configured"
  /\ cfg = IdleConfigure
  /\ rd = IdleReader
  /\ dec = NoDecode
  /\ parsed = NoParse

ShapeAccess(address) == AccessUpTo(address, FALSE, MaxShapeAccesses)

NextShapes == \E address \in 0..MaxAddr : ShapeAccess(address)

SpecShapes == InitShapes /\ [][NextShapes]_vars

(* ------------------------------ properties ----------------------------- *)

ValidTags(cset) == {cset.blocks[i].tag : i \in {j \in 1..Len(cset.blocks) : cset.blocks[j].valid}}

ValidCount(cset) == Cardinality({j \in 1..Len(cset.blocks) : cset.blocks[j].valid})

IsFull(cset) == \A j \in 1..Len(cset.blocks) : cset.blocks[j].valid

\* the set (1-based) an address is routed to in the current instance
SetOf(address) ==
  get_address_parts(address, cache_instance.block_size, cache_instance.num_sets)[2] + 1

TagOf(address) ==
  get_address_parts(address, cache_instance.block_size, cache_instance.num_sets)[1]

\* this step is a Cache.access call that returned
AccessStep ==
  /\ cache_instance.configured
  /\ last'.op = "access"
  /\ last'.status = "ok"
  /\ cache_instance'.stats.accesses = cache_instance.stats.accesses + 1

\* the set the step's access is routed to, before and after the step
PreSet == cache_instance.sets[SetOf(last'.address)]
PostSet == cache_instance'.sets[SetOf(last'.address)]

\* position of tag t in the sequence order
PosIn(order, t) == CHOOSE i \in 1..Len(order) : order[i] = t

\* the tag of tags that comes first in order
OldestIn(order, tags) ==
  CHOOSE t \in tags : \A u \in tags : PosIn(order, t) <= PosIn(order, u)

\* the instance is the fully-associative two-block cache of
\* test_replacement_policies with the given policy
TwoBlockCache(kind) ==
  /\ cache_instance.configured
  /\ cache_instance.block_size = 4
  /\ cache_instance.num_sets = 1
  /\ cache_instance.ways = 2
  /\ Len(cache_instance.sets) = 1
  /\ cache_instance.sets[1].policy.kind = kind

\* C1: in every set of a configured cache the tags tracked by the set's
\* policy are exactly the tags of the set's valid blocks
C1_PolicyTracksValidTags ==
  cache_instance.configured =>
    \A s \in 1..Len(cache_instance.sets) :
      SeqElems(cache_instance.sets[s].policy.order) = ValidTags(cache_instance.sets[s])

\* an eviction has happened in a set that holds two or more blocks
C1_Witness ==
  /\ cache_instance.configured
  /\ last.op = "access"
  /\ last.evicted # None
  /\ \E s \in 1..Len(cache_instance.sets) :
       /\ ValidCount(cache_instance.sets[s]) >= 2
       /\ SeqElems(cache_instance.sets[s].policy.order) = ValidTags(cache_instance.sets[s])

\* C2: a miss into a full set of an LRU cache evicts the resident block whose
\* most recent use (load or hit) is the oldest of the set
C2_Step ==
  (AccessStep /\ ~last'.hit) =>
    \A pre \in {PreSet} :
      (IsFull(pre) /\ pre.policy.kind = "LRU")
      => /\ last'.evicted # None
         /\ last'.evicted[1].tag =
              OldestIn(useOrder[SetOf(last'.address)], ValidTags(pre))

\* C2, the example: access(0), access(4), access(0), access(8) on the
\* two-block LRU cache evicts tag 1
C2_Example ==
  (TwoBlockCache("LRU") /\ last.op = "access" /\ trace = <<0, 4, 0, 8>>)
  => last.evicted # None /\ last.evicted[1].tag = 1

C2_LRUEvictsLeastRecentlyUsed == []C2_Example /\ [][C2_Step]_vars

C2_Witness ==
  /\ TwoBlockCache("LRU")
  /\ last.op = "access"
  /\ trace = <<0, 4, 0, 8>>
  /\ last.evicted # None
  /\ ValidTags(cache_instance.sets[1]) = {0, 2}

\* C3: a miss into a full set of a FIFO cache evicts the resident block that
\* was loaded earliest, whatever hits the blocks received
C3_Step ==
  (AccessStep /\ ~last'.hit) =>
    \A pre \in {PreSet} :
      (IsFull(pre) /\ pre.policy.kind = "FIFO")
      => /\ last'.evicted # None
         /\ last'.evicted[1].tag =
              OldestIn(loadOrder[SetOf(last'.address)], ValidTags(pre))

\* C3, the example: access(0), access(4), access(0), access(8) on the
\* two-block FIFO cache evicts tag 0
C3_Example ==
  (TwoBlockCache("FIFO") /\ last.op = "access" /\ trace = <<0, 4, 0, 8>>)
  => last.evicted # None /\ last.evicted[1].tag = 0

C3_FIFOEvictsEarliestLoaded == []C3_Example /\ [][C3_Step]_vars

C3_Witness ==
  /\ TwoBlockCache("FIFO")
  /\ last.op = "access"
  /\ trace = <<0, 4, 0, 8>>
  /\ last.evicted # None
  /\ ValidTags(cache_instance.sets[1]) = {1, 2}

\* C4: accesses = hits + misses and evictions <= misses
C4_StatsConsistent ==
  /\ cache_instance.stats.accesses =
       cache_instance.stats.hits + cache_instance.stats.misses
  /\ cache_instance.stats.evictions <= cache_instance.stats.misses

\* hits, misses without eviction and misses with eviction have all occurred
C4_Witness ==
  /\ cache_instance.configured
  /\ cache_instance.stats.hits >= 1
  /\ cache_instance.stats.evictions >= 1
  /\ cache_instance.stats.misses > cache_instance.stats.evictions
  /\ cache_instance.stats.accesses =
       cache_instance.stats.hits + cache_instance.stats.misses

\* C5: an access returns an evicted block exactly when its tag is not
\* resident and the addressed set has no empty slot; a hit evicts nothing and
\* a miss into a set with an empty slot fills an empty slot and leaves every
\* other slot as it was
C5_Step ==
  AccessStep =>
    \A pre \in {PreSet}, post \in {PostSet}, tag \in {TagOf(last'.address)} :
      \A resident \in {tag \in ValidTags(pre)}, full \in {IsFull(pre)} :
        /\ last'.hit <=> resident
        /\ last'.evicted # None <=> (~resident /\ full)
        /\ (~resident /\ ~full) =>
             \E e \in 1..Len(pre.blocks) :
               /\ ~pre.blocks[e].valid
               /\ post.blocks[e].valid
               /\ post.blocks[e].tag = tag
               /\ \A j \in 1..Len(pre.blocks) :
                    j # e => post.blocks[j] = pre.blocks[j]

C5_EvictsIffMissIntoFullSet == [][C5_Step]_vars

\* an access has just evicted from a set of two or more ways
C5_Witness ==
  /\ cache_instance.configured
  /\ last.op = "access"
  /\ last.status = "ok"
  /\ ~last.hit
  /\ last.evicted # None
  /\ cache_instance.ways >= 2
  /\ IsFull(cache_instance.sets[SetOf(last.address)])

\* C6: neither "No victim found but set is full" nor "Victim tag not found
\* in set" is ever raised
C6_NoInternalInvariantFailure ==
  last.status \notin {"No victim found but set is full",
                      "Victim tag not found in set"}

\* the policy has named a victim at least twice on the same instance
C6_Witness ==
  /\ cache_instance.configured
  /\ last.op = "access"
  /\ last.status = "ok"
  /\ last.evicted # None
  /\ cache_instance.stats.evictions >= 2

\* C7: every set holds at most ways valid blocks and has exactly ways slots,
\* and the cache has exactly num_sets sets
C7_TopologyKept ==
  cache_instance.configured =>
    /\ Len(cache_instance.sets) = cache_instance.num_sets
    /\ \A s \in 1..Len(cache_instance.sets) :
         /\ Len(cache_instance.sets[s].blocks) = cache_instance.ways
         /\ ValidCount(cache_instance.sets[s]) <= cache_instance.ways

\* C8: a write access leaves the addressed block dirty; on a hit the block's
\* slot, tag, valid flag and data are what they were
C8_Step ==
  (AccessStep /\ last'.is_write) =>
    \A pre \in {PreSet}, post \in {PostSet}, tag \in {TagOf(last'.address)} :
      \E slot \in 1..Len(post.blocks) :
        /\ post.blocks[slot].valid
        /\ post.blocks[slot].tag = tag
        /\ post.blocks[slot].dirty
        /\ last'.hit =>
             /\ pre.blocks[slot].valid
             /\ pre.blocks[slot].tag = tag
             /\ post.blocks[slot].data = pre.blocks[slot].data

C8_WriteDirtiesBlock == [][C8_Step]_vars

\* a write has just missed and loaded a block that is now dirty
C8_Witness ==
  /\ cache_instance.configured
  /\ last.op = "access"
  /\ last.status = "ok"
  /\ last.is_write
  /\ ~last.hit
  /\ \E slot \in 1..Len(cache_instance.sets[SetOf(last.address)].blocks) :
       LET b == cache_instance.sets[SetOf(last.address)].blocks[slot] IN
       b.valid /\ b.tag = TagOf(last.address) /\ b.dirty

\* the instance is the 2-way cache of test_set_associative_cache
TwoSetCache ==
  /\ cache_instance.configured
  /\ cache_instance.block_size = 4
  /\ cache_instance.num_sets = 2
  /\ cache_instance.ways = 2
  /\ Len(cache_instance.sets) = 2
  /\ cache_instance.sets[1].policy.kind = "LRU"

C9_Script == <<0, 4, 8, 0, 12, 4>>
C9_Hits == <<FALSE, FALSE, FALSE, TRUE, FALSE, TRUE>>

\* C9: on the size 16, block 4, 2-way LRU cache, 0 and 8 share a set, 4 and
\* 12 share the other, and access 0, 4, 8, 0, 12, 4 gives miss, miss, miss,
\* hit, miss, hit with hits = 2 and misses = 4 at the end
C9_SetAssociativeRouting ==
  (/\ TwoSetCache
   /\ last.op = "access"
   /\ trace # <<>>
   /\ trace # OffScript
   /\ IsPrefix(trace, C9_Script))
  => /\ SetOf(0) = SetOf(8)
     /\ SetOf(4) = SetOf(12)
     /\ SetOf(0) # SetOf(4)
     /\ last.status = "ok"
     /\ last.hit = C9_Hits[Len(trace)]
     /\ trace = C9_Script =>
          /\ cache_instance.stats.hits = 2
          /\ cache_instance.stats.misses = 4

C9_Witness ==
  /\ TwoSetCache
  /\ last.op = "access"
  /\ trace = C9_Script
  /\ last.hit
  /\ cache_instance.stats.hits = 2
  /\ cache_instance.stats.misses = 4

\* C10: every cache that construction returns has num_sets >= 1 and
\* ways >= 1, with num_sets sets of ways blocks each
C10_TopologyPositive ==
  cache_instance.configured =>
    /\ cache_instance.num_sets >= 1
    /\ cache_instance.ways >= 1
    /\ Len(cache_instance.sets) = cache_instance.num_sets
    /\ \A s \in 1..Len(cache_instance.sets) :
         Len(cache_instance.sets[s].blocks) = cache_instance.ways

\* this step is a Cache(...) construction that returned
ConfigureStep ==
  /\ last'.op = "configure"
  /\ last'.status = "ok"

\* C11: every accepted configuration has num_sets * ways * block_size =
\* total_size; associativity 1 gives (total_blocks, 1), -1 gives
\* (1, total_blocks), any other accepted a gives (total_blocks / a, a)
C11_Step ==
  ConfigureStep =>
    \A c \in Topologies, p \in PolicyTypes :
      Configure(c[1], c[2], c[3], p) =>
        \A built \in {cache_instance'}, total_blocks \in {c[1] \div c[2]} :
          /\ built.block_size = c[2]
          /\ built.num_sets * built.ways * built.block_size = c[1]
          /\ c[3] = 1 => built.num_sets = total_blocks /\ built.ways = 1
          /\ c[3] = -1 => built.num_sets = 1 /\ built.ways = total_blocks
          /\ c[3] \notin {1, -1} =>
               built.num_sets * c[3] = total_blocks /\ built.ways = c[3]

C11_TopologyProduct == [][C11_Step]_vars

\* the 16-byte, 4-byte-block, 2-way cache has just been built
C11_Witness ==
  /\ last.op = "configure"
  /\ last.status = "ok"
  /\ cache_instance.configured
  /\ cache_instance.block_size = 4
  /\ cache_instance.num_sets = 2
  /\ cache_instance.ways = 2

\* a evenly divides n (n >= 0)
Divides(a, n) == \E k \in (-n)..n : k * a = n

\* the size and divisibility conditions on a topology <<total, block, assoc>>
PassesSizeChecks(c) ==
  /\ c[1] > 0
  /\ c[2] > 0
  /\ c[1] % c[2] = 0
  /\ c[3] \in {-1, 1} \/ Divides(c[3], c[1] \div c[2])

\* C12: construction fails with ValueError and leaves no new cache whenever
\* total_size <= 0, block_size <= 0, block_size does not divide total_size,
\* or the associativity is outside {-1, 1} and does not divide total_blocks
C12_Step ==
  last'.op = "configure" =>
    \A c \in Topologies, p \in PolicyTypes :
      (Configure(c[1], c[2], c[3], p) /\ ~PassesSizeChecks(c)) =>
        /\ last'.status = "ValueError"
        /\ cache_instance' = cache_instance

C12_BadTopologyIsValueError == [][C12_Step]_vars

\* policy names create_policy does not know, whatever their case
UnknownPolicy(p) == p \notin {"LRU", "FIFO", "lru", "fifo"}

\* C13: construction with an unknown policy kind fails with ValueError and
\* leaves no new cache, for every topology that passes the size checks
C13_Step ==
  last'.op = "configure" =>
    \A c \in Topologies, p \in PolicyTypes :
      (Configure(c[1], c[2], c[3], p) /\ UnknownPolicy(p) /\ PassesSizeChecks(c)) =>
        /\ last'.status = "ValueError"
        /\ cache_instance' = cache_instance

C13_UnknownPolicyIsValueError == [][C13_Step]_vars

\* the replies of access_cache to a body that fails its validation
AccessValidationErrors == {"No access data provided", "Invalid address format"}

\* C14: a configure request that fails (size string, associativity, policy
\* or topology) and an access request that fails input validation leave the
\* current Cache, its blocks and its statistics as they were
C14_Step ==
  /\ (last'.op = "configure" /\ last'.status # "ok")
       => cache_instance' = cache_instance
  /\ (last'.op = "access" /\ last'.status \in AccessValidationErrors)
       => cache_instance' = cache_instance

C14_FailedRequestKeepsCache == [][C14_Step]_vars

\* a topology has just been rejected while the current cache holds a block
\* and has counted accesses
C14_Witness ==
  /\ last.op = "configure"
  /\ last.status = "ValueError"
  /\ cache_instance.configured
  /\ cache_instance.stats.accesses >= 2
  /\ \E s \in 1..Len(cache_instance.sets) : ValidCount(cache_instance.sets[s]) >= 1

\* the topology fields of an instance
TopologyOf(cache) == <<cache.num_sets, cache.ways, cache.block_size>>

\* C15: with requests served one at a time, access, state and stats answer
\* "Cache not configured" and change nothing exactly when no configure has
\* succeeded since start-up or since the latest reset; otherwise they work on
\* the cache of the latest successful configure
C15_Step ==
  last'.op \in ReadOps =>
    /\ last'.status = "Cache not configured" <=> live # "configured"
    /\ live # "configured" =>
         /\ cache_instance' = cache_instance
         /\ ~cache_instance.configured
         /\ seen' = None
    /\ live = "configured" =>
         /\ cache_instance.configured
         /\ cache_instance'.configured
         /\ TopologyOf(cache_instance') = TopologyOf(cache_instance)
         /\ (last'.status = "ok" /\ last'.op # "stats")
              => seen'[1].config =
                   ConfigBody(cache_instance, cache_instance.block_size)

C15_NotConfiguredIffNoLiveCache == [][C15_Step]_vars

\* a stats request has just been refused after a reset
C15_Witness ==
  /\ last.op = "stats"
  /\ last.status = "Cache not configured"
  /\ live = "reset"
  /\ ~cache_instance.configured

\* what a caller sees of an access: status, hit flag and evicted block
Outcome(r) == <<r.status, r.hit, r.evicted>>

\* C17: a state or stats request changes no block, no policy order and no
\* counter; it returns what the previous such request (or the access before
\* it) returned when no access lies in between, and every access has the
\* outcome after it that it would have had before it
C17_Step ==
  (last'.op \in {"state", "stats"}) =>
    /\ cache_instance' = cache_instance
    /\ \A data \in AccessRequests :
         Outcome(access_cache(data, cache_instance')) =
           Outcome(access_cache(data, cache_instance))
    /\ (last'.op = "state" /\ last.op \in {"state", "access"} /\ last.status = "ok")
         => seen' = seen
    /\ (last'.op = "stats" /\ last.op = "stats" /\ last.status = "ok")
         => seen' = seen
    /\ (last'.op = "stats" /\ last.op \in {"state", "access"} /\ last.status = "ok")
         => seen' = Some(StatsBody(seen[1].stats))

C17_GettersAreReadOnly == [][C17_Step]_vars

\* a state request has just been answered from a cache that holds a dirty
\* block and has counted a hit
C17_Witness ==
  /\ last.op = "state"
  /\ last.status = "ok"
  /\ cache_instance.stats.hits >= 1
  /\ seen = Some(get_contents(cache_instance).result)
  /\ \E s \in 1..Len(cache_instance.sets) :
       \E j \in 1..Len(cache_instance.sets[s].blocks) :
         cache_instance.sets[s].blocks[j].dirty

\* all num_sets sets, each with ways blocks, and a statistics object
FullyConstructed(cache) ==
  /\ Len(cache.sets) = cache.num_sets
  /\ \A s \in 1..Len(cache.sets) : Len(cache.sets[s].blocks) = cache.ways
  /\ cache.stats \in [accesses : Nat, hits : Nat, misses : Nat, evictions : Nat]

\* the same of the contents a state or access reply carries
FullContents(contents) ==
  /\ Len(contents.sets) = contents.config.numSets
  /\ \A s \in 1..Len(contents.sets) :
       Len(contents.sets[s].blocks) = contents.config.waysPerSet

\* C16: with configure, reset, access, state and stats requests interleaved,
\* the global is None or a fully constructed Cache (all num_sets sets, each
\* with ways blocks, and its statistics) whenever it is read, and so is what
\* the replies show
C16_ObservedInstanceComplete ==
  /\ cache_instance.configured => FullyConstructed(cache_instance)
  /\ (last.op \in {"access", "state"} /\ last.status = "ok")
       => FullContents(seen[1])

\* C18: for a non-negative address and power-of-two block_size and num_sets
\* (1 included), get_address_parts returns (tag, index, offset) with
\* 0 <= offset < block_size, 0 <= index < num_sets and
\* address = (tag * num_sets + index) * block_size + offset; two addresses
\* get the same (tag, index) exactly when they lie in the same aligned block
C18_DecomposeRoundTrip ==
  dec.parts # None =>
    \A pa \in {dec.parts[1][1]}, pb \in {dec.parts[1][2]} :
      /\ 0 <= pa[3] /\ pa[3] < dec.block_size
      /\ 0 <= pa[2] /\ pa[2] < dec.num_sets
      /\ dec.a = (pa[1] * dec.num_sets + pa[2]) * dec.block_size + pa[3]
      /\ (pa[1] = pb[1] /\ pa[2] = pb[2])
           <=> (dec.a \div dec.block_size = dec.b \div dec.block_size)

\* 29 and 30 with block_size 4 and 2 sets: tag 3, index 1, offsets 1 and 2
C18_Witness ==
  /\ dec.parts = Some(<<(<<3, 1, 1>>), (<<3, 1, 2>>)>>)
  /\ dec.a = 29
  /\ dec.b = 30
  /\ dec.block_size = 4
  /\ dec.num_sets = 2

\* the instance is the fully-associative four-block cache of
\* test_fully_associative_cache
FourBlockCache ==
  /\ cache_instance.configured
  /\ cache_instance.block_size = 4
  /\ cache_instance.num_sets = 1
  /\ cache_instance.ways = 4
  /\ Len(cache_instance.sets) = 1

C19_Script == <<0, 4, 8, 12, 0, 4, 8, 12>>

\* C19: while the distinct tags routed to a set are no more than ways, no
\* access to the set evicts, and an access hits exactly when its tag has
\* been accessed in the set before
C19_Step ==
  AccessStep =>
    \A s \in {SetOf(last'.address)}, tag \in {TagOf(last'.address)} :
      Len(useOrder'[s]) <= cache_instance.ways =>
        /\ last'.evicted = None
        /\ last'.hit <=> tag \in SeqElems(useOrder[s])

\* C19, the example: on the size 16, block 4 fully-associative cache 0, 4, 8,
\* 12 miss, then 0, 4, 8, 12 hit, and hits = 4, misses = 4 at the end
C19_Example ==
  (/\ FourBlockCache
   /\ last.op = "access"
   /\ trace # <<>>
   /\ trace # OffScript
   /\ IsPrefix(trace, C19_Script))
  => /\ last.status = "ok"
     /\ last.evicted = None
     /\ last.hit <=> Len(trace) > 4
     /\ trace = C19_Script =>
          /\ cache_instance.stats.hits = 4
          /\ cache_instance.stats.misses = 4

C19_NoEvictionWhileTagsFit == []C19_Example /\ [][C19_Step]_vars

C19_Witness ==
  /\ FourBlockCache
  /\ last.op = "access"
  /\ trace = C19_Script
  /\ last.hit
  /\ cache_instance.stats.hits = 4
  /\ cache_instance.stats.misses = 4
  /\ cache_instance.stats.evictions = 0

\* the instance is the direct-mapped four-set cache of
\* test_direct_mapped_cache
DirectMappedCache ==
  /\ cache_instance.configured
  /\ cache_instance.block_size = 4
  /\ cache_instance.num_sets = 4
  /\ cache_instance.ways = 1
  /\ Len(cache_instance.sets) = 4

C20_Script == <<0, 4, 8, 0>>

\* C20: in a direct-mapped cache an access hits exactly when the latest
\* earlier access routed to the same set had the same tag, whatever was
\* routed to other sets in between
C20_Step ==
  (AccessStep /\ cache_instance.ways = 1) =>
    \A order \in {useOrder[SetOf(last'.address)]}, tag \in {TagOf(last'.address)} :
      last'.hit <=> (order # <<>> /\ order[Len(order)] = tag)

\* C20, the example: size 16, block 4, associativity 1: 0, 4, 8, 0 gives
\* miss, miss, miss, hit
C20_Example ==
  (/\ DirectMappedCache
   /\ last.op = "access"
   /\ trace # <<>>
   /\ trace # OffScript
   /\ IsPrefix(trace, C20_Script))
  => /\ last.status = "ok"
     /\ last.hit <=> Len(trace) = 4

C20_DirectMappedHitIffSameTag == []C20_Example /\ [][C20_Step]_vars

C20_Witness ==
  /\ DirectMappedCache
  /\ last.op = "access"
  /\ trace = C20_Script
  /\ last.hit
  /\ cache_instance.stats.hits = 1
  /\ cache_instance.stats.misses = 3

\* the longest prefix of s made of digits
RECURSIVE DigitPrefix(_)
DigitPrefix(s) ==
  IF s # <<>> /\ IsDigitChar(Head(s))
    THEN <<Head(s)>> \o DigitPrefix(Tail(s))
    ELSE <<>>

\* what C21 says parseSize does: [outcome, value]
StatedParse(input) ==
  LET s == Strip(UpperStr(input))
      n == DigitPrefix(s)
      unit == SubSeq(s, Len(n) + 1, Len(s))
  IN IF n = <<>> THEN [outcome |-> "ValueError", value |-> 0]
     ELSE IF unit = <<>> THEN [outcome |-> "ok", value |-> IntOfDigits(n)]
     ELSE IF Multiplier(unit) = 0 THEN [outcome |-> "ValueError", value |-> 0]
     ELSE [outcome |-> "ok", value |-> IntOfDigits(n) * Multiplier(unit)]

\* C21: parse_size, whitespace trimmed and case ignored, returns n for a
\* string of digits, n * m for digits immediately followed by one of B, KB,
\* MB, GB, and raises ValueError for every other string
C21_ParseSizeAsStated ==
  parsed.outcome # "" =>
    /\ parsed.outcome = StatedParse(parsed.input).outcome
    /\ parsed.value = StatedParse(parsed.input).value

\* C22: a valid block is dirty exactly when a write has targeted it since
\* it was loaded, the loading access included. Step by step: a cache starts
\* without valid blocks; the block an access loads is dirty exactly when the
\* access is a write, whatever the slot held before; the block an access
\* hits is dirty afterwards exactly when it was dirty or the access is a
\* write; every other valid block of the set keeps its dirty flag
C22_Step ==
  /\ ConfigureStep =>
       \A s \in 1..Len(cache_instance'.sets) :
         ValidCount(cache_instance'.sets[s]) = 0
  /\ AccessStep =>
       \A pre \in {PreSet}, post \in {PostSet}, tag \in {TagOf(last'.address)} :
         \A j \in 1..Len(post.blocks) :
           post.blocks[j].valid =>
             IF post.blocks[j].tag = tag
               THEN post.blocks[j].dirty <=>
                      (last'.is_write \/ (last'.hit /\ pre.blocks[j].dirty))
               ELSE /\ pre.blocks[j].valid
                    /\ pre.blocks[j].tag = post.blocks[j].tag
                    /\ post.blocks[j].dirty = pre.blocks[j].dirty

C22_DirtyIffWrittenSinceLoad == [][C22_Step]_vars

\* a read miss has just replaced a dirty block and its block is clean
C22_Witness ==
  /\ cache_instance.configured
  /\ last.op = "access"
  /\ last.status = "ok"
  /\ ~last.is_write
  /\ ~last.hit
  /\ last.evicted # None
  /\ last.evicted[1].dirty
  /\ \E j \in 1..Len(cache_instance.sets[SetOf(last.address)].blocks) :
       LET b == cache_instance.sets[SetOf(last.address)].blocks[j] IN
       b.valid /\ b.tag = TagOf(last.address) /\ ~b.dirty

\* C23: the evicted block an access returns has the tag of the block that
\* was in the overwritten slot, which is not the tag loaded, and that
\* block's dirty flag and data as they were before the access, whether or
\* not the access is a write
C23_Step ==
  (AccessStep /\ last'.evicted # None) =>
    \A pre \in {PreSet}, post \in {PostSet}, tag \in {TagOf(last'.address)},
       evicted \in {last'.evicted[1]} :
      /\ evicted.tag # tag
      /\ evicted.valid
      /\ \E j \in 1..Len(pre.blocks) :
           /\ pre.blocks[j].valid
           /\ pre.blocks[j].tag = evicted.tag
           /\ pre.blocks[j].dirty = evicted.dirty
           /\ pre.blocks[j].data = evicted.data
           /\ post.blocks[j].valid
           /\ post.blocks[j].tag = tag
           /\ post.blocks[j].dirty = last'.is_write

C23_SnapshotIsVictimBeforeOverwrite == [][C23_Step]_vars

\* a write has just evicted a clean block: the snapshot is clean, the new
\* block dirty
C23_Witness ==
  /\ cache_instance.configured
  /\ last.op = "access"
  /\ last.status = "ok"
  /\ last.is_write
  /\ last.evicted # None
  /\ ~last.evicted[1].dirty
  /\ last.evicted[1].tag # TagOf(last.address)
  /\ \E j \in 1..Len(cache_instance.sets[SetOf(last.address)].blocks) :
       LET b == cache_instance.sets[SetOf(last.address)].blocks[j] IN
       b.valid /\ b.tag = TagOf(last.address) /\ b.dirty

\* C24: no set holds two valid blocks with the same tag
C24_NoDuplicateTags ==
  cache_instance.configured =>
    \A s \in 1..Len(cache_instance.sets) :
      \A i, j \in 1..Len(cache_instance.sets[s].blocks) :
        (/\ i # j
         /\ cache_instance.sets[s].blocks[i].valid
         /\ cache_instance.sets[s].blocks[j].valid)
        => cache_instance.sets[s].blocks[i].tag # cache_instance.sets[s].blocks[j].tag

\* a set of three ways is full after an eviction and a hit
C24_Witness ==
  /\ cache_instance.configured
  /\ cache_instance.ways = 3
  /\ IsFull(cache_instance.sets[1])
  /\ cache_instance.stats.evictions >= 1
  /\ cache_instance.stats.hits >= 1
  /\ Cardinality(ValidTags(cache_instance.sets[1])) = 3

\* C25: an access routed to one set leaves every other set as it was: the
\* tag, valid, dirty and data of its blocks and the order its policy tracks
C25_Step ==
  AccessStep =>
    \A i \in {SetOf(last'.address)} :
      /\ Len(cache_instance'.sets) = Len(cache_instance.sets)
      /\ \A j \in 1..Len(cache_instance.sets) :
           j # i =>
             /\ cache_instance'.sets[j].blocks = cache_instance.sets[j].blocks
             /\ cache_instance'.sets[j].policy = cache_instance.sets[j].policy

C25_OtherSetsUntouched == [][C25_Step]_vars

\* an access has just evicted from one set while another set holds a dirty
\* block
C25_Witness ==
  /\ cache_instance.configured
  /\ last.op = "access"
  /\ last.status = "ok"
  /\ last.evicted # None
  /\ \E j \in 1..Len(cache_instance.sets) :
       /\ j # SetOf(last.address)
       /\ \E k \in 1..Len(cache_instance.sets[j].blocks) :
            /\ cache_instance.sets[j].blocks[k].valid
            /\ cache_instance.sets[j].blocks[k].dirty

\* C26: on every cache with num_sets >= 1 that construction returns, num_sets
\* or block_size not being powers of two included, an access to a
\* non-negative address computes a set index with 0 <= index < num_sets and
\* does not index outside the list of sets
C26_IndexInRange ==
  (/\ cache_instance.configured
   /\ cache_instance.num_sets >= 1
   /\ last.op = "access")
  => /\ last.status = "ok"
     /\ 1 <= SetOf(last.address)
     /\ SetOf(last.address) <= cache_instance.num_sets
     /\ SetOf(last.address) <= Len(cache_instance.sets)

\* address 7 on the cache of 3 sets of one 3-byte block is routed to set 1
C26_Witness ==
  /\ cache_instance.configured
  /\ cache_instance.num_sets = 3
  /\ cache_instance.block_size = 3
  /\ last.op = "access"
  /\ last.status = "ok"
  /\ last.address = 7
  /\ SetOf(last.address) = 2

\* the last n elements of the sequence order, as a set
LastOf(order, n) == {order[i] : i \in {k \in 1..Len(order) : k > Len(order) - n}}

\* the smaller of two numbers
Min(a, b) == IF a <= b THEN a ELSE b

\* C27: in an LRU cache the tags resident in a set are the min(ways, d) most
\* recently accessed of the d distinct tags routed to the set so far
C27_Resident ==
  cache_instance.configured =>
    \A s \in 1..Len(cache_instance.sets) :
      cache_instance.sets[s].policy.kind = "LRU" =>
        ValidTags(cache_instance.sets[s]) =
          LastOf(useOrder[s], Min(cache_instance.ways, Len(useOrder[s])))

\* C27, the equivalent: an access to an LRU set hits exactly when its tag
\* was accessed before and fewer than ways other distinct tags were accessed
\* in the set since
C27_Step ==
  AccessStep =>
    \A pre \in {PreSet}, order \in {useOrder[SetOf(last'.address)]},
       tag \in {TagOf(last'.address)} :
      pre.policy.kind = "LRU" =>
        (last'.hit <=>
           /\ tag \in SeqElems(order)
           /\ Len(order) - PosIn(order, tag) < cache_instance.ways)

C27_LRUKeepsMostRecentTags == []C27_Resident /\ [][C27_Step]_vars

\* a 3-way LRU set has seen four distinct tags and a hit, and has evicted
C27_Witness ==
  /\ cache_instance.configured
  /\ cache_instance.ways = 3
  /\ cache_instance.sets[1].policy.kind = "LRU"
  /\ Len(useOrder[1]) = 4
  /\ cache_instance.stats.hits >= 1
  /\ cache_instance.stats.evictions >= 1
  /\ ValidTags(cache_instance.sets[1]) = LastOf(useOrder[1], 3)

====
